---- MODULE Spec2Model ----
(***************************************************************************)
(* Model of mlflow/tracing/processor/inference_table.py:                   *)
(* InferenceTableSpanProcessor.on_start / on_end, run by worker threads    *)
(* against the process-wide trace registry.                                *)
(*                                                                         *)
(* The registry (InMemoryTraceManager), the trace-id generator, the span   *)
(* name deduplication and the status mapping live in other modules of the  *)
(* repository; their behaviour is taken from the design document.          *)
(***************************************************************************)
EXTENDS Integers, Sequences, FiniteSets, TLC

(* ---------------------------------------------------------------- bounds *)
MaxEnds == 2        \* end events delivered per root span

(* ------------------------------------------------------------- constants *)
NS_PER_MS == 1000000

(* Python's None and Optional values: None is <<>>, a value v is <<v>>. *)
None == <<>>
Some(v) == <<v>>
Val(o) == o[1]

Threads == {1, 2}

(* ------------------------------------------------------------ the spans *)
(* One OTel trace: span 1 is the root, spans 2 and 3 are its children.     *)
(* Span 4 is a second root span whose native context yields the same trace *)
(* key (a generator collision); it only exists in the collision scenario.  *)
Spans == {1, 2, 3, 4}
parent(s) == IF s \in {1, 4} THEN None ELSE Some(1)
context_trace_id(s) == "0a"

StartTimes == {0, 1500000}
EndTimes == {3000000, 120000000}
OTelStatusCodes == {"UNSET", "OK", "ERROR"}
AmbientIds == {None, Some(""), Some("req-42")}
HeaderValues == {None, Some(""), Some("req-7")}
FlaskRequests == {None} \cup {Some(h) : h \in HeaderValues}

VARIABLES
    pc,          \* pc[t]: position of thread t inside the handler it runs
    arg,         \* arg[t]: the span the handler of thread t was called with
    local,       \* local[t]: span collection read by thread t in attachSpan
    env,         \* env[t]: ambient value and flask request seen by on_start of thread t
    universe,    \* the spans the producer creates in this scenario
    offered,     \* offered[s]: for a started root span, the ambient value, and the
                 \*   flask request if the ambient value was None
    collisions,  \* number of registrations reported for a key already present
    resolved,    \* resolved[s]: "unseen" before on_start(s), then whether the
                 \*   environment offered a correlation id: "absent" or "present"
    attributes,  \* attributes[s]: value of the span attribute REQUEST_ID, or None
    spanName,    \* spanName[s]: display name of the span object
    spanStart,   \* spanStart[s]: start_time of the span (ns)
    spanEnd,     \* spanEnd[s]: None, or Some([end_time, status]) once the span is ended
    ends,        \* ends[s]: end events delivered for the root span s
    attachLog,   \* the spans whose attach took effect, in the order of their first attach
    registry,    \* trace key -> [info, span_dict]
    lock,        \* lock[k]: 0, or the thread holding the lock of entry k
    exports,     \* exports[s]: number of exporter invocations with span s
    handoff      \* handoff[s]: None, or Some(the trace handed over with s)

vars == <<pc, arg, local, env, universe, offered, collisions, resolved, attributes, spanName, spanStart, spanEnd, ends,
          attachLog, registry, lock, exports, handoff>>

\* the spans of the scenario without and with a parent
Roots == {s \in universe : parent(s) = None}
Children == {s \in universe : parent(s) # None}

(* ----------------------------------------------------- pure conversions *)
\* the attribute stored as the bare text
json_dumps_Raw(x) == x

\* json.dumps / json.loads of a string: the text is wrapped in quotes.
json_dumps(x) == <<"\"">> \o x \o <<"\"">>
json_loads(j) == SubSeq(j, 2, Len(j) - 1)

\* Trace ID Generator: a prefix followed by the encoding of the native trace id.
generate_trace_id_v3(s) == <<"tr-", context_trace_id(s)>>

\* get_otel_attribute: the decoded attribute, None when the span has none.
get_otel_attribute(s) ==
    IF attributes[s] = None THEN None ELSE Some(json_loads(Val(attributes[s])))

AllKeys == {generate_trace_id_v3(s) : s \in Spans}

\* "not x" of Python for an optional string
Falsy(o) == o = None \/ o = Some("")

(* ------------------------------------------------------------- registry *)
\* register(key, info): a new TraceState with an empty span collection;
\* an existing entry for the key is overwritten.  The entry is addressed by
\* the trace key carried in the info (the key on_end looks up); the native
\* trace id passed along determines that key.
register_trace(reg, otel_trace_id, info) ==
    [k \in DOMAIN reg \cup {info.request_id} |->
        IF k = info.request_id THEN [info |-> info, span_dict |-> <<>>] ELSE reg[k]]

\* lookup used by withLockedTrace / get_trace: None when the key is unknown
get_trace(reg, key) ==
    IF key # None /\ Val(key) \in DOMAIN reg THEN Some(reg[Val(key)]) ELSE None

\* a remove that leaves the entry in place
remove_Keep(reg, key) == reg

\* remove(key)
remove(reg, key) == [k \in DOMAIN reg \ {key} |-> reg[k]]

(* ------------------------------------------------------------- on_start *)
\* a check for an empty value where the code checks for None
NeedsFallback_Falsy(databricks_request_id) == Falsy(databricks_request_id)

\* line 60: databricks_request_id is None
NeedsFallback(databricks_request_id) == databricks_request_id = None

\* a lookup that takes whatever header value the request carries
FallbackRequestId_AnyHeader(flask_request) ==
    IF flask_request # None THEN Val(flask_request) ELSE None

\* lines 67-80: the X-Request-Id header of the active flask request; None
\* (no request context, header missing or empty) means "return"
FallbackRequestId(flask_request) ==
    IF flask_request # None
    THEN (IF Falsy(Val(flask_request)) THEN None ELSE Val(flask_request))
    ELSE None

\* a resolver that prefers the header to the ambient value
ResolveRequestId_HeaderFirst(ambient, flask_request) ==
    IF FallbackRequestId(flask_request) # None THEN FallbackRequestId(flask_request)
    ELSE ambient

\* Correlation resolver of on_start (lines 59-80): the ambient value, else
\* the header of the active flask request; None means "return".
ResolveRequestId(ambient, flask_request) ==
    IF NeedsFallback(ambient) THEN FallbackRequestId(flask_request) ELSE ambient

\* what the environment offered: no ambient value and no usable header
NoCorrelation(ambient, flask_request) ==
    /\ ambient = None
    /\ flask_request \in {None, Some(None), Some(Some(""))}

\* a trace info that starts with a duration of 0
TraceInfo_ZeroDuration(start, trace_id, databricks_request_id) ==
    [request_id |-> trace_id,
     client_request_id |-> databricks_request_id,
     timestamp_ms |-> start \div NS_PER_MS,
     execution_time_ms |-> Some(0),
     status |-> "IN_PROGRESS"]

TraceInfo(start, trace_id, databricks_request_id) ==
    [request_id |-> trace_id,
     client_request_id |-> databricks_request_id,
     timestamp_ms |-> start \div NS_PER_MS,
     execution_time_ms |-> None,
     status |-> "IN_PROGRESS"]

\* a registration made for every span
IsRootSpan_Always(s) == TRUE

\* line 88: span._parent is None
IsRootSpan(s) == parent(s) = None

\* a collision that is not reported
register_collision_Silent(reg, info) == FALSE

\* register(key, info) for a key already present is reported by a log event
register_collision(reg, info) == info.request_id \in DOMAIN reg

\* lines 60-103, once the ambient value and the flask request are known
OnStartBody(s, ambient, flask_request) ==
    /\ resolved' = [resolved EXCEPT ![s] =
                      IF NoCorrelation(ambient, flask_request) THEN "absent" ELSE "present"]
    /\ LET databricks_request_id == ResolveRequestId(ambient, flask_request)
           trace_id == generate_trace_id_v3(s)
           info == TraceInfo(spanStart'[s], trace_id, Val(databricks_request_id))
       IN IF databricks_request_id = None
          THEN UNCHANGED <<attributes, registry, collisions>>
          ELSE /\ attributes' = [attributes EXCEPT ![s] = Some(json_dumps(trace_id))]
               /\ IF IsRootSpan(s)
                  THEN /\ registry' = register_trace(registry, context_trace_id(s), info)
                       /\ collisions' = IF register_collision(registry, info)
                                        THEN collisions + 1 ELSE collisions
                  ELSE UNCHANGED <<registry, collisions>>

\* the producer creates the span (start_time is set), then on_start(span) runs;
\* a child is created under a parent that exists, and its start_time, which
\* no handler reads, is kept at one value.  With an ambient value the handler
\* runs to its end; without one it goes on to the flask request (line 67).
OnStart(t, s, start, ambient, flask_request) ==
    /\ pc[t] = "idle"
    /\ s \in universe
    /\ resolved[s] = "unseen"
    /\ \A u \in Threads : ~(pc[u] = "start_fallback" /\ arg[u] = s)
    /\ parent(s) # None => (resolved[Val(parent(s))] # "unseen" /\ start = 1500000)
    /\ spanStart' = [spanStart EXCEPT ![s] = start]
    /\ offered' = IF parent(s) = None
                  THEN [offered EXCEPT ![s] =
                           [ambient |-> ambient,
                            flask |-> IF ambient = None THEN flask_request ELSE None]]
                  ELSE offered
    /\ IF NeedsFallback(ambient)
       THEN /\ pc' = [pc EXCEPT ![t] = "start_fallback"]
            /\ arg' = [arg EXCEPT ![t] = s]
            /\ env' = [env EXCEPT ![t] = [ambient |-> ambient, flask |-> flask_request]]
            /\ UNCHANGED <<resolved, attributes, registry, collisions>>
       ELSE /\ OnStartBody(s, ambient, flask_request)
            /\ UNCHANGED <<pc, arg, env>>
    /\ UNCHANGED <<universe, local, spanName, spanEnd, ends, attachLog, lock,
                   exports, handoff>>

\* lines 67-103: _get_flask_request(), the header, and the rest of on_start
OnStartFallback(t) ==
    /\ pc[t] = "start_fallback"
    /\ UNCHANGED <<universe, offered, local, spanName, spanStart, spanEnd, ends, attachLog,
                   lock, exports, handoff>>
    /\ OnStartBody(arg[t], env[t].ambient, env[t].flask)
    /\ pc' = [pc EXCEPT ![t] = "idle"]
    /\ arg' = [arg EXCEPT ![t] = 0]
    /\ env' = [env EXCEPT ![t] = [ambient |-> None, flask |-> None]]

(* ----------------------------------------------------------- attachSpan *)
\* the span collection is keyed by span id: a span already present keeps its
\* place, a new one is appended
Insert(d, s) == IF \E i \in 1..Len(d) : d[i] = s THEN d ELSE Append(d, s)

\* an attach that does not take the entry lock
AttachSpan_NoLock(t, s) ==
    /\ pc[t] = "idle"
    /\ s \in Children
    /\ resolved[s] # "unseen"
    /\ IF get_trace(registry, Some(generate_trace_id_v3(s))) = None
       THEN UNCHANGED <<pc, arg>>
       ELSE /\ pc' = [pc EXCEPT ![t] = "att_read"]
            /\ arg' = [arg EXCEPT ![t] = s]
    /\ UNCHANGED <<env, universe, offered, collisions, local, resolved, attributes, spanName, spanStart, spanEnd, ends,
                   attachLog, registry, lock, exports, handoff>>

\* withLockedTrace, entry: unknown key -> fn(None); known key -> take the entry lock.
\* A span may be delivered again at any time (re-delivery, late delivery).
AttachSpan(t, s) ==
    /\ pc[t] = "idle"
    /\ s \in Children
    /\ resolved[s] # "unseen"
    /\ LET key == generate_trace_id_v3(s)
       IN IF get_trace(registry, Some(key)) = None
          THEN UNCHANGED <<pc, arg, lock>>
          ELSE /\ lock[key] = 0
               /\ lock' = [lock EXCEPT ![key] = t]
               /\ pc' = [pc EXCEPT ![t] = "att_read"]
               /\ arg' = [arg EXCEPT ![t] = s]
    /\ UNCHANGED <<env, universe, offered, collisions, local, resolved, attributes, spanName, spanStart, spanEnd, ends,
                   attachLog, registry, exports, handoff>>

AttachRead(t) ==
    /\ pc[t] = "att_read"
    /\ LET key == generate_trace_id_v3(arg[t])
       IN local' = [local EXCEPT ![t] =
                       IF key \in DOMAIN registry THEN registry[key].span_dict ELSE <<>>]
    /\ pc' = [pc EXCEPT ![t] = "att_write"]
    /\ UNCHANGED <<env, universe, offered, collisions, arg, resolved, attributes, spanName, spanStart, spanEnd, ends, attachLog, registry, lock, exports, handoff>>

\* the insertion, then the release of the entry lock; an entry removed in the
\* meantime is not brought back (the state object is no longer in the registry)
AttachWrite(t) ==
    /\ pc[t] = "att_write"
    /\ LET key == generate_trace_id_v3(arg[t])
       IN /\ IF key \in DOMAIN registry
             THEN /\ registry' = [registry EXCEPT ![key].span_dict = Insert(local[t], arg[t])]
                  /\ attachLog' = IF \E i \in 1..Len(attachLog) : attachLog[i] = arg[t]
                                  THEN attachLog ELSE attachLog \o <<arg[t]>>
             ELSE UNCHANGED <<registry, attachLog>>
          /\ lock' = [lock EXCEPT ![key] = 0]
    /\ pc' = [pc EXCEPT ![t] = "idle"]
    /\ arg' = [arg EXCEPT ![t] = 0]
    /\ local' = [local EXCEPT ![t] = <<>>]
    /\ UNCHANGED <<env, universe, offered, collisions, resolved, attributes, spanName, spanStart, spanEnd, ends, exports, handoff>>

(* --------------------------------------------------------------- on_end *)
\* TraceStatus.from_otel_status
from_otel_status(code) ==
    CASE code = "OK" -> "OK"
      [] code = "ERROR" -> "ERROR"
      [] OTHER -> "TRACE_STATUS_UNSPECIFIED"

\* A display name is a text followed by the numeric suffixes appended to it:
\* <<"fetch">> is "fetch", <<"fetch", 2>> is "fetch_2".
\* deduplicateNames: a name already taken by an earlier span of the collection
\* gets the first free numeric suffix, counting from 2
RECURSIVE FreshName(_, _, _)
FreshName(n, used, k) ==
    IF Append(n, k) \notin used THEN Append(n, k) ELSE FreshName(n, used, k + 1)

RECURSIVE DedupFrom(_, _, _)
DedupFrom(names, i, used) ==
    IF i > Len(names) THEN <<>>
    ELSE LET new == IF names[i] \notin used THEN names[i] ELSE FreshName(names[i], used, 2)
         IN <<new>> \o DedupFrom(names, i + 1, used \cup {new})

\* a deduplication that numbers the occurrences of a name without looking at
\* the names already in use
deduplicate_span_names_Count(names) ==
    [i \in 1..Len(names) |->
        LET k == Cardinality({j \in 1..i : names[j] = names[i]})
        IN IF k = 1 THEN names[i] ELSE Append(names[i], k)]

deduplicate_span_names(names) == DedupFrom(names, 1, {})

\* a trace as the exporter sees it: its info and its spans with their names
View(reg, names, key) ==
    [info |-> reg[key].info,
     spans |-> [i \in 1..Len(reg[key].span_dict) |->
                   <<reg[key].span_dict[i], names[reg[key].span_dict[i]]>>]]

\* span.end() of the producer (end_time and status are set once), then the
\* call of on_end(span)
OnEndCall(t, s) ==
    /\ pc[t] = "idle"
    /\ resolved[s] # "unseen"
    /\ parent(s) = None => ends[s] < MaxEnds
    /\ ends' = [ends EXCEPT ![s] = IF parent(s) = None THEN @ + 1 ELSE @]
    /\ IF spanEnd[s] = None /\ parent(s) = None
       THEN \E e \in EndTimes, c \in OTelStatusCodes :
               /\ e = 3000000 \/ c = "OK"
               /\ spanEnd' = [spanEnd EXCEPT ![s] = Some([end_time |-> e, status |-> c])]
       ELSE UNCHANGED spanEnd
    /\ pc' = [pc EXCEPT ![t] = "end_entry"]
    /\ arg' = [arg EXCEPT ![t] = s]
    /\ UNCHANGED <<env, universe, offered, collisions, local, resolved, attributes, spanName, spanStart, attachLog,
                   registry, lock, exports, handoff>>

\* an on_end that lets the end of a child span through
HasParent_Never(s) == FALSE

\* line 113: span._parent is not None
HasParent(s) == parent(s) # None

\* an on_end that does not return when the trace is unknown
OnEndEnter_NoReturn(t) ==
    /\ pc[t] = "end_entry"
    /\ LET s == arg[t]
           request_id == get_otel_attribute(s)
       IN IF HasParent(s)
          THEN /\ pc' = [pc EXCEPT ![t] = "idle"]
               /\ arg' = [arg EXCEPT ![t] = 0]
               /\ UNCHANGED lock
          ELSE IF get_trace(registry, request_id) = None
          THEN /\ pc' = [pc EXCEPT ![t] = "end_export"]
               /\ UNCHANGED <<arg, lock>>
          ELSE /\ lock[Val(request_id)] = 0
               /\ lock' = [lock EXCEPT ![Val(request_id)] = t]
               /\ pc' = [pc EXCEPT ![t] = "end_time"]
               /\ UNCHANGED arg
    /\ UNCHANGED <<env, universe, offered, collisions, local, resolved, attributes, spanName, spanStart, spanEnd, ends,
                   attachLog, registry, exports, handoff>>

\* lines 113-120: parent check, attribute read, get_trace
OnEndEnter(t) ==
    /\ pc[t] = "end_entry"
    /\ LET s == arg[t]
           request_id == get_otel_attribute(s)
       IN IF HasParent(s) \/ get_trace(registry, request_id) = None
          THEN /\ pc' = [pc EXCEPT ![t] = "idle"]
               /\ arg' = [arg EXCEPT ![t] = 0]
               /\ UNCHANGED lock
          ELSE /\ lock[Val(request_id)] = 0
               /\ lock' = [lock EXCEPT ![Val(request_id)] = t]
               /\ pc' = [pc EXCEPT ![t] = "end_time"]
               /\ UNCHANGED arg
    /\ UNCHANGED <<env, universe, offered, collisions, local, resolved, attributes, spanName, spanStart, spanEnd, ends, attachLog, registry, exports, handoff>>

\* a duration taken as the difference of the two times in milliseconds
execution_time_ms_OfMs(start, end) == (end \div NS_PER_MS) - (start \div NS_PER_MS)

\* line 122
execution_time_ms(start, end) == (end - start) \div NS_PER_MS

\* a write to the trace object held by the with block; an object that has
\* left the registry in the meantime is no longer part of the registry state
WriteInfo(reg, key, field, v) ==
    IF key \in DOMAIN reg
    THEN [reg EXCEPT ![key].info = [f \in DOMAIN @ |-> IF f = field THEN v ELSE @[f]]]
    ELSE reg

\* a duration written in a critical section of its own
OnEndSetTime_Unlock(t) ==
    /\ pc[t] = "end_time"
    /\ LET s == arg[t]
           key == Val(get_otel_attribute(s))
       IN /\ registry' = WriteInfo(registry, key, "execution_time_ms",
                             Some(execution_time_ms(spanStart[s], Val(spanEnd[s]).end_time)))
          /\ lock' = [lock EXCEPT ![key] = 0]
    /\ pc' = [pc EXCEPT ![t] = "end_status"]
    /\ UNCHANGED <<env, universe, offered, collisions, arg, local, resolved, attributes,
                   spanName, spanStart, spanEnd, ends, attachLog, exports, handoff>>

\* line 122
OnEndSetTime(t) ==
    /\ pc[t] = "end_time"
    /\ LET s == arg[t]
           key == Val(get_otel_attribute(s))
       IN registry' = WriteInfo(registry, key, "execution_time_ms",
                          Some(execution_time_ms(spanStart[s], Val(spanEnd[s]).end_time)))
    /\ pc' = [pc EXCEPT ![t] = "end_status"]
    /\ UNCHANGED <<env, universe, offered, collisions, arg, local, resolved, attributes, spanName, spanStart, spanEnd, ends,
                   attachLog, lock, exports, handoff>>

\* line 123
OnEndSetStatus(t) ==
    /\ pc[t] = "end_status"
    /\ LET s == arg[t]
           key == Val(get_otel_attribute(s))
       IN registry' = WriteInfo(registry, key, "status",
                          from_otel_status(Val(spanEnd[s]).status))
    /\ pc' = [pc EXCEPT ![t] = "end_dedup"]
    /\ UNCHANGED <<env, universe, offered, collisions, arg, local, resolved, attributes, spanName, spanStart, spanEnd, ends,
                   attachLog, lock, exports, handoff>>

\* a deduplication that drops the spans whose name an earlier span carries
DedupCollection_Drop(d) ==
    LET keep(i) == \A j \in 1..(i - 1) : spanName[d[j]] # spanName[d[i]]
        idx == {i \in 1..Len(d) : keep(i)}
        RECURSIVE pick(_)
        pick(i) == IF i > Len(d) THEN <<>>
                   ELSE (IF i \in idx THEN <<d[i]>> ELSE <<>>) \o pick(i + 1)
    IN pick(1)

\* line 124: list(trace.span_dict.values()) is a copy of the collection, so
\* the collection keeps its spans and their order
DedupCollection(d) == d

\* line 124: the names of the collected span objects are rewritten in place
DedupInPlace(names, d) ==
    LET new == deduplicate_span_names([i \in 1..Len(d) |-> names[d[i]]])
    IN [x \in DOMAIN names |-> IF \E i \in 1..Len(d) : d[i] = x
                               THEN new[CHOOSE i \in 1..Len(d) : d[i] = x]
                               ELSE names[x]]

\* a with block left without releasing the entry lock
OnEndDedup_Return(t) ==
    /\ pc[t] = "end_dedup"
    /\ pc' = [pc EXCEPT ![t] = "idle"]
    /\ arg' = [arg EXCEPT ![t] = 0]
    /\ UNCHANGED <<env, universe, offered, collisions, local, resolved, attributes, spanName,
                   spanStart, spanEnd, ends, attachLog, registry, lock, exports, handoff>>

\* line 124
OnEndDedup(t) ==
    /\ pc[t] = "end_dedup"
    /\ LET s == arg[t]
           key == Val(get_otel_attribute(s))
       IN IF key \in DOMAIN registry
          THEN /\ spanName' = DedupInPlace(spanName, registry[key].span_dict)
               /\ registry' = [registry EXCEPT ![key].span_dict = DedupCollection(@)]
          ELSE UNCHANGED <<spanName, registry>>
    /\ pc' = [pc EXCEPT ![t] = "end_exit"]
    /\ UNCHANGED <<env, universe, offered, collisions, arg, local, resolved, attributes, spanStart, spanEnd, ends, attachLog, lock, exports, handoff>>

\* a with block whose lock outlives it
OnEndExit_KeepLock(t) ==
    /\ pc[t] = "end_exit"
    /\ pc' = [pc EXCEPT ![t] = "end_export"]
    /\ UNCHANGED <<env, universe, offered, collisions, arg, local, resolved, attributes,
                   spanName, spanStart, spanEnd, ends, attachLog, registry, lock, exports,
                   handoff>>

\* leaving the with block: the entry lock is released
OnEndExit(t) ==
    /\ pc[t] = "end_exit"
    /\ lock' = [lock EXCEPT ![Val(get_otel_attribute(arg[t]))] = 0]
    /\ pc' = [pc EXCEPT ![t] = "end_export"]
    /\ UNCHANGED <<env, universe, offered, collisions, arg, local, resolved, attributes, spanName, spanStart, spanEnd, ends,
                   attachLog, registry, exports, handoff>>

\* line 126: super().on_end(span) invokes span_exporter.export with the span;
\* the trace of the span is handed over as a copy and its entry is removed
OnEndExport(t) ==
    /\ pc[t] = "end_export"
    /\ LET s == arg[t]
           request_id == get_otel_attribute(s)
       IN /\ exports' = [exports EXCEPT ![s] = @ + 1]
          /\ IF get_trace(registry, request_id) # None
             THEN /\ handoff' = [handoff EXCEPT ![s] =
                                    Some(View(registry, spanName, Val(request_id)))]
                  /\ registry' = remove(registry, Val(request_id))
             ELSE UNCHANGED <<handoff, registry>>
    /\ pc' = [pc EXCEPT ![t] = "idle"]
    /\ arg' = [arg EXCEPT ![t] = 0]
    /\ UNCHANGED <<env, universe, offered, collisions, local, resolved, attributes, spanName, spanStart, spanEnd, ends,
                   attachLog, lock>>

(* -------------------------------------------------------- specifications *)
Init ==
    /\ pc = [t \in Threads |-> "idle"]
    /\ arg = [t \in Threads |-> 0]
    /\ local = [t \in Threads |-> <<>>]
    /\ env = [t \in Threads |-> [ambient |-> None, flask |-> None]]
    /\ universe = {1, 2, 3}
    /\ offered = [s \in Spans |-> [ambient |-> None, flask |-> None]]
    /\ collisions = 0
    /\ resolved = [s \in Spans |-> "unseen"]
    /\ attributes = [s \in Spans |-> None]
    /\ spanName = [s \in Spans |-> <<"fetch">>]
    /\ spanStart = [s \in Spans |-> 0]
    /\ spanEnd = [s \in Spans |-> None]
    /\ ends = [s \in Spans |-> 0]
    /\ attachLog = <<>>
    /\ registry = [k \in {} |-> 0]
    /\ lock = [k \in AllKeys |-> 0]
    /\ exports = [s \in Spans |-> 0]
    /\ handoff = [s \in Spans |-> None]

Step(t) ==
    \/ \E s \in Spans, st \in StartTimes, a \in AmbientIds, f \in FlaskRequests :
          OnStart(t, s, st, a, f)
    \/ OnStartFallback(t)
    \/ \E s \in Spans : AttachSpan(t, s)
    \/ AttachRead(t)
    \/ AttachWrite(t)
    \/ \E s \in Spans : OnEndCall(t, s)
    \/ OnEndEnter(t)
    \/ OnEndSetTime(t)
    \/ OnEndSetStatus(t)
    \/ OnEndDedup(t)
    \/ OnEndExit(t)
    \/ OnEndExport(t)

\* handlers run by concurrent worker threads
Next == \E t \in Threads : Step(t)

Spec == Init /\ [][Next]_vars

(* A generator collision: the producer creates two root spans whose native  *)
(* contexts yield the same trace key; the two handlers of the processor run *)
(* on these spans, from the state in which the first root span has started  *)
(* with the ambient value "req-42".                                         *)
InitCollide ==
    /\ pc = [t \in Threads |-> "idle"]
    /\ arg = [t \in Threads |-> 0]
    /\ local = [t \in Threads |-> <<>>]
    /\ env = [t \in Threads |-> [ambient |-> None, flask |-> None]]
    /\ universe = {1, 4}
    /\ offered = [s \in Spans |-> [ambient |-> IF s = 1 THEN Some("req-42") ELSE None,
                                    flask |-> None]]
    /\ collisions = 0
    /\ resolved = [s \in Spans |-> IF s = 1 THEN "present" ELSE "unseen"]
    /\ attributes = [s \in Spans |->
                       IF s = 1 THEN Some(json_dumps(generate_trace_id_v3(s))) ELSE None]
    /\ spanName = [s \in Spans |-> <<"fetch">>]
    /\ spanStart = [s \in Spans |-> 0]
    /\ spanEnd = [s \in Spans |-> None]
    /\ ends = [s \in Spans |-> 0]
    /\ attachLog = <<>>
    /\ registry = register_trace([k \in {} |-> 0], context_trace_id(1),
                                 TraceInfo(0, generate_trace_id_v3(1), "req-42"))
    /\ lock = [k \in AllKeys |-> 0]
    /\ exports = [s \in Spans |-> 0]
    /\ handoff = [s \in Spans |-> None]

StepCollide(t) ==
    \/ \E s \in Spans, st \in StartTimes, a \in AmbientIds, f \in FlaskRequests :
          OnStart(t, s, st, a, f)
    \/ OnStartFallback(t)
    \/ \E s \in Spans : OnEndCall(t, s)
    \/ OnEndEnter(t)
    \/ OnEndSetTime(t)
    \/ OnEndSetStatus(t)
    \/ OnEndDedup(t)
    \/ OnEndExit(t)
    \/ OnEndExport(t)

NextCollide == \E t \in Threads : StepCollide(t)

SpecCollide == InitCollide /\ [][NextCollide]_vars

(* Deduplication on its own: the state at line 124 of a root end event, for  *)
(* every ordered collection of distinct spans and every assignment of names. *)
DedupNames == {<<"fetch">>, <<"fetch", 2>>, <<"load">>}
Collections ==
    {d \in UNION {[1..n -> Spans] : n \in 0..Cardinality(Spans)} :
        \A i, j \in 1..Len(d) : d[i] = d[j] => i = j}

InitDedup ==
    /\ pc = [t \in Threads |-> IF t = 1 THEN "end_dedup" ELSE "idle"]
    /\ arg = [t \in Threads |-> IF t = 1 THEN 1 ELSE 0]
    /\ local = [t \in Threads |-> <<>>]
    /\ env = [t \in Threads |-> [ambient |-> None, flask |-> None]]
    /\ universe = {1, 2, 3}
    /\ offered = [s \in Spans |-> [ambient |-> Some("req-42"), flask |-> None]]
    /\ collisions = 0
    /\ resolved = [s \in Spans |-> "present"]
    /\ attributes = [s \in Spans |-> Some(json_dumps(generate_trace_id_v3(s)))]
    /\ spanName \in [Spans -> DedupNames]
    /\ spanStart = [s \in Spans |-> 0]
    /\ spanEnd = [s \in Spans |->
                    IF s = 1 THEN Some([end_time |-> 120000000, status |-> "OK"]) ELSE None]
    /\ ends = [s \in Spans |-> IF s = 1 THEN 1 ELSE 0]
    /\ attachLog \in Collections
    /\ registry = WriteInfo(WriteInfo(
                      [register_trace([k \in {} |-> 0], context_trace_id(1),
                                      TraceInfo(0, generate_trace_id_v3(1), "req-42"))
                         EXCEPT ![generate_trace_id_v3(1)].span_dict = attachLog],
                      generate_trace_id_v3(1), "execution_time_ms", Some(120)),
                      generate_trace_id_v3(1), "status", "OK")
    /\ lock = [k \in AllKeys |-> 1]
    /\ exports = [s \in Spans |-> 0]
    /\ handoff = [s \in Spans |-> None]

NextDedup == \E t \in Threads : OnEndDedup(t)

SpecDedup == InitDedup /\ [][NextDedup]_vars

(* ================================================================ claims *)
Key(s) == generate_trace_id_v3(s)
Idle == \A t \in Threads : pc[t] = "idle"
Present(s) == get_trace(registry, Some(Key(s))) # None
SpanIds(v) == [i \in 1..Len(v.spans) |-> v.spans[i][1]]

\* C1: the exporter is invoked at most once for the key of a root span,
\* whatever span-start and span-end events are delivered.
C1_ExportAtMostOnce == \A s \in Roots : exports[s] <= 1

C3_AbandonedRootNeverExported ==
    \A s \in Roots : resolved[s] = "absent" =>
        /\ ~Present(s)
        /\ attributes[s] = None
        /\ exports[s] = 0
        /\ handoff[s] = None

C3_Witness == \E s \in Roots : resolved[s] = "absent" /\ ends[s] = 1 /\ Idle

\* C4: for a root span registered at its start, the end event looks up the
\* key read back from the span and finds the entry registered at start; when
\* the handler of its end event has returned, the trace has been handed to
\* the exporter, once per end event that found it and exactly once for a
\* span ended once.
C4_RegisteredRootExported ==
    \A s \in Roots : resolved[s] = "present" =>
        /\ get_otel_attribute(s) = Some(Key(s))
        /\ \A t \in Threads :
              (pc[t] = "end_entry" /\ arg[t] = s /\ ends[s] = 1) =>
                 /\ get_trace(registry, get_otel_attribute(s)) # None
                 /\ Val(get_trace(registry, get_otel_attribute(s))).info.request_id = Key(s)
                 /\ Val(get_trace(registry, get_otel_attribute(s))).info.status = "IN_PROGRESS"
        /\ (ends[s] = 1 /\ \A t \in Threads : arg[t] # s) =>
                 (exports[s] = 1 /\ handoff[s] # None)
        /\ exports[s] <= ends[s]

C4_Witness ==
    \E s \in Roots : resolved[s] = "present" /\ ends[s] = 1 /\ exports[s] = 1 /\ Idle

\* C5: the finalized trace info has execution_time_ms = the whole
\* milliseconds in (end_time - start_time) nanoseconds, status = the image
\* of the span status, and timestamp_ms = the whole milliseconds in
\* start_time; start 0 ms and end 120 ms with status OK give 120 and OK.
WholeMs(ns, ms) == ms * 1000000 <= ns /\ ns < (ms + 1) * 1000000

StatusOf(code) == IF code = "OK" THEN "OK"
                  ELSE IF code = "ERROR" THEN "ERROR" ELSE "TRACE_STATUS_UNSPECIFIED"

FinalizedInfo(s, info) ==
    /\ info.execution_time_ms # None
    /\ WholeMs(Val(spanEnd[s]).end_time - spanStart[s], Val(info.execution_time_ms))
    /\ info.status = StatusOf(Val(spanEnd[s]).status)
    /\ WholeMs(spanStart[s], info.timestamp_ms)
    /\ (spanStart[s] = 0 /\ Val(spanEnd[s]) = [end_time |-> 120000000, status |-> "OK"]) =>
           (info.execution_time_ms = Some(120) /\ info.status = "OK")

C5_DurationAndStatus ==
    \A s \in Roots :
        /\ Present(s) => WholeMs(spanStart[s], registry[Key(s)].info.timestamp_ms)
        /\ handoff[s] # None => FinalizedInfo(s, Val(handoff[s]).info)
        /\ \A t \in Threads :
              (arg[t] = s /\ pc[t] \in {"end_dedup", "end_exit", "end_export"} /\ Present(s))
                 => FinalizedInfo(s, registry[Key(s)].info)

C5_Witness ==
    \E s \in Roots :
        /\ handoff[s] # None
        /\ spanStart[s] = 1500000
        /\ Val(spanEnd[s]).end_time = 3000000
        /\ Val(handoff[s]).info.execution_time_ms = Some(1)
        /\ Val(handoff[s]).info.timestamp_ms = 1

\* C6: a root span registered at start is found by a lookup on its key until
\* it is handed over; the span collection of its trace, in the registry and
\* as handed over after the finalize, holds exactly the spans that were
\* attached, one per span id, in the order of their first attach.
C6_CollectionIsAttachedInOrder ==
    \A s \in Roots :
        /\ (resolved[s] = "present" /\ exports[s] = 0) => Present(s)
        /\ Present(s) => registry[Key(s)].span_dict = attachLog
        /\ handoff[s] # None => SpanIds(Val(handoff[s])) = attachLog

C6_Witness ==
    \E s \in Roots : handoff[s] # None /\ SpanIds(Val(handoff[s])) = <<3, 2>> /\ Idle

\* C7: whatever the interleaving of the attaches of the threads, the span
\* collection handed over at the finalize has as many spans as there were
\* distinct spans attached: none is lost, none is there twice.
Attached == {attachLog[i] : i \in 1..Len(attachLog)}

C7_NoLostAttach ==
    \A s \in Roots :
        /\ handoff[s] # None =>
              /\ Len(Val(handoff[s]).spans) = Cardinality(Attached)
              /\ {SpanIds(Val(handoff[s]))[i] : i \in 1..Len(Val(handoff[s]).spans)} = Attached
        /\ Present(s) => Len(registry[Key(s)].span_dict) = Cardinality(Attached)

C7_Witness ==
    \E s \in Roots : handoff[s] # None /\ Len(Val(handoff[s]).spans) = 2
                     /\ Cardinality(Attached) = 2

\* C9: a root end event that finds no trace for its key returns at once: the
\* registry, the locks and what the exporter has received are unchanged.
UnknownAtEnd(t) ==
    /\ pc[t] = "end_entry"
    /\ parent(arg[t]) = None
    /\ get_trace(registry, get_otel_attribute(arg[t])) = None

C9_UnknownTraceIsNoOp ==
    [][\A t \in Threads :
          (UnknownAtEnd(t) /\ pc'[t] # pc[t]) =>
              /\ pc'[t] = "idle"
              /\ registry' = registry
              /\ lock' = lock
              /\ exports' = exports
              /\ handoff' = handoff
              /\ spanName' = spanName]_vars

C9_Witness == \E s \in Roots : resolved[s] = "absent" /\ ends[s] = 2 /\ Idle

\* C8: the deduplication of line 124 is idempotent: once it has run on a
\* collection, running it again changes no name; the names of the collection
\* are then pairwise distinct, and the collection holds the same spans in
\* the same order as before.
C8_DedupIdempotent ==
    \A t \in Threads : pc[t] = "end_exit" =>
        LET d == registry[Key(arg[t])].span_dict
        IN /\ DedupInPlace(spanName, d) = spanName
           /\ \A i, j \in 1..Len(d) : spanName[d[i]] = spanName[d[j]] => i = j
           /\ d = attachLog

C8_Witness ==
    /\ pc[1] = "end_exit"
    /\ Len(attachLog) = 3
    /\ spanName[attachLog[1]] = <<"fetch">>
    /\ spanName[attachLog[2]] = <<"fetch", 2>>
    /\ spanName[attachLog[3]] = <<"fetch", 2, 2>>

Holds(t) == {k \in AllKeys : lock[k] = t}
InfoOf(s) == registry[Key(s)].info
Finalized(info) == info.status # "IN_PROGRESS" /\ info.execution_time_ms # None

\* C11: a thread that is invoking the exporter (line 126), or that is looking
\* up the flask request and its header (lines 67-80), holds no entry lock.
C11_NoLockInExportOrLookup ==
    \A t \in Threads : pc[t] \in {"end_export", "start_fallback"} => Holds(t) = {}

C11_Witness ==
    \E t, u \in Threads :
        /\ pc[t] = "end_export" /\ Present(arg[t]) /\ exports[arg[t]] = 0
        /\ pc[u] = "start_fallback"

\* C12: there is no state in which the entry of a root span is finalized
\* (status and duration written), still in the registry, and unlocked.
C12_RemoveThenUnlock ==
    \A s \in Roots : (Present(s) /\ Finalized(InfoOf(s))) => lock[Key(s)] # 0

\* C13: the start of a span that has a parent leaves the registry as it is,
\* whatever the resolver returns; a key enters the registry only in a step
\* that is the start of a root span.
C13_ChildStartKeepsRegistry ==
    [][/\ \A s \in Children :
             (resolved[s] = "unseen" /\ resolved'[s] # "unseen") =>
                 (registry' = registry /\ collisions' = collisions)
       /\ (DOMAIN registry' \ DOMAIN registry # {}) =>
             \E s \in Roots : resolved[s] = "unseen" /\ resolved'[s] = "present"]_vars

C13_Witness ==
    \E s \in Children :
        /\ resolved[s] = "present" /\ attributes[s] # None
        /\ resolved[Val(parent(s))] = "absent"
        /\ DOMAIN registry = {}

\* C14: on_end of a span that has a parent returns at once: the registry
\* (infos and collections), the span names, the locks and the exporter's
\* record are unchanged.
C14_ChildEndIsNoOp ==
    [][\A t \in Threads :
          (pc[t] = "end_entry" /\ parent(arg[t]) # None /\ pc'[t] # pc[t]) =>
              /\ pc'[t] = "idle"
              /\ registry' = registry
              /\ spanName' = spanName
              /\ lock' = lock
              /\ exports' = exports
              /\ handoff' = handoff]_vars

C14_Witness ==
    \E t \in Threads :
        /\ pc[t] = "end_entry" /\ arg[t] \in Children
        /\ Present(arg[t]) /\ attributes[arg[t]] # None
        /\ lock[Key(arg[t])] = 0

\* the correlation value the environment offered to the start of root span s
OfferedId(s) ==
    IF offered[s].ambient # None THEN offered[s].ambient
    ELSE IF offered[s].flask # None THEN Val(offered[s].flask) ELSE None

\* C15: the header is consulted only when the ambient value is None, and the
\* client_request_id of a registered trace is the ambient value if there is
\* one, otherwise the header value.
C15_AmbientBeforeHeader ==
    /\ \A t \in Threads :
          pc[t] = "start_fallback" =>
              /\ env[t].ambient = None
              /\ parent(arg[t]) = None => offered[arg[t]].ambient = None
    /\ \A s \in Roots :
          (resolved[s] # "unseen" /\ ends[s] = 0 /\ Present(s)) =>
              Some(InfoOf(s).client_request_id) = OfferedId(s)

C15_Witness ==
    \E s \in Roots :
        /\ resolved[s] = "present" /\ ends[s] = 0 /\ Present(s)
        /\ offered[s] = [ambient |-> None, flask |-> Some(Some("req-7"))]
        /\ InfoOf(s).client_request_id = "req-7"

\* C16: a root start that registers a key already in the registry returns,
\* is reported once, and leaves one entry under the key: the new trace info
\* with an empty collection (the existing entry is always overwritten).
C16_CollisionOverwritesAndLogs ==
    [][\A s \in Roots :
          (resolved[s] = "unseen" /\ resolved'[s] = "present"
             /\ Key(s) \in DOMAIN registry) =>
              /\ collisions' = collisions + 1
              /\ DOMAIN registry' = DOMAIN registry
              /\ registry'[Key(s)] =
                    [info |-> [request_id |-> Key(s),
                               client_request_id |->
                                   IF offered'[s].ambient # None
                                   THEN Val(offered'[s].ambient)
                                   ELSE Val(Val(offered'[s].flask)),
                               timestamp_ms |-> spanStart'[s] \div NS_PER_MS,
                               execution_time_ms |-> None,
                               status |-> "IN_PROGRESS"],
                     span_dict |-> <<>>]
              /\ \A t \in Threads : pc'[t] # pc[t] => pc'[t] = "idle"]_vars

C16_Witness ==
    /\ collisions = 1
    /\ \A s \in Roots : resolved[s] = "present" /\ ends[s] = 0
    /\ Len(registry[Key(1)].span_dict) = 0
    /\ Idle

CriticalSection == {"att_read", "att_write", "end_time", "end_status", "end_dedup", "end_exit"}

\* C17: a thread that is in no handler holds no entry lock, and a lock that
\* is held is held by a thread inside a with block, which goes on to release
\* it: no key stays locked.
C17_LockReleasedOnReturn ==
    /\ \A t \in Threads : pc[t] = "idle" => Holds(t) = {}
    /\ \A k \in AllKeys : lock[k] # 0 => pc[lock[k]] \in CriticalSection

C17_Witness ==
    /\ Idle
    /\ \E s \in Roots : resolved[s] = "present" /\ ends[s] = 2 /\ exports[s] = 1
    /\ \A k \in AllKeys : lock[k] = 0

\* C18: a registered trace whose root span has not ended is in the registry
\* with status IN_PROGRESS and no duration, whatever else has happened.
C18_InProgressUntilRootEnd ==
    \A s \in Roots :
        (resolved[s] = "present" /\ ends[s] = 0) =>
            /\ Present(s)
            /\ InfoOf(s).status = "IN_PROGRESS"
            /\ InfoOf(s).execution_time_ms = None

C18_Witness ==
    \E s \in Roots :
        /\ resolved[s] = "present" /\ ends[s] = 0
        /\ Len(registry[Key(s)].span_dict) = 2
        /\ \E t \in Threads : pc[t] = "end_entry" /\ arg[t] \in Children

\* the ambient value is not None, or it is None and the flask request
\* carries a non-empty header
Registers(s) ==
    \/ offered[s].ambient # None
    \/ /\ offered[s].flask # None
       /\ Val(offered[s].flask) \notin {None, Some("")}

\* C19: on_start tags and registers a root span exactly when the ambient
\* value is not None (an empty string included) or the header of an active
\* flask request is non-empty; otherwise the span is neither tagged nor
\* registered.
C19_RegistersIffCorrelated ==
    \A s \in Roots :
        resolved[s] # "unseen" =>
            /\ attributes[s] # None <=> Registers(s)
            /\ ends[s] = 0 => (Present(s) <=> Registers(s))
            /\ ~Registers(s) => (exports[s] = 0 /\ handoff[s] = None)
            /\ (ends[s] = 0 /\ Present(s) /\ offered[s].ambient = Some("")) =>
                   InfoOf(s).client_request_id = ""

C19_Witness ==
    \E s \in Roots :
        /\ offered[s].ambient = Some("")
        /\ Present(s) /\ attributes[s] # None
        /\ InfoOf(s).client_request_id = ""

Partial(info) ==
    (info.status # "IN_PROGRESS") # (info.execution_time_ms # None)

\* C20: a thread that has taken the entry lock to read or change the trace
\* never finds it with one of status and duration written and not the other;
\* such an entry exists only between lines 122 and 123 of the thread that
\* holds its lock.
C20_FinalizeAtomic ==
    \A s \in Roots :
        Present(s) =>
            /\ \A t \in Threads :
                  (lock[Key(s)] = t /\ pc[t] \in {"att_read", "att_write", "end_time"})
                      => ~Partial(InfoOf(s))
            /\ Partial(InfoOf(s)) =>
                  (lock[Key(s)] # 0 /\ pc[lock[Key(s)]] = "end_status")

C20_Witness ==
    \E t \in Threads, s \in Roots :
        /\ pc[t] = "att_write" /\ lock[Key(s)] = t
        /\ Present(s) /\ Finalized(InfoOf(s))

====
